---- MODULE Spec2Model ----
(***************************************************************************)
(* Pricing Power Calculator (src/app/app/app/page.js).                     *)
(*                                                                         *)
(* The component App keeps five pieces of React state (company, year,      *)
(* cogsPct, fixedPct, priceChangeTradeoffPct) and three memoized results   *)
(* (structure, onePercentImpacts, tradeoff).  All arithmetic of the        *)
(* component is JavaScript Number arithmetic, i.e. IEEE 754 binary64 with  *)
(* round-to-nearest-even.  TLC's integers are 32 bits wide, so a number is *)
(* modelled as sign * significand * 2^exponent with the significand kept   *)
(* as a little-endian sequence of 15-bit limbs, and every operator of the  *)
(* component (divide, subtract, add, multiply) is the exact result         *)
(* followed by the binary64 rounding.                                      *)
(***************************************************************************)
EXTENDS Integers, Sequences, FiniteSets, TLC

----------------------------------------------------------------------------
(* Natural numbers of arbitrary size: little-endian limbs, no leading      *)
(* zero limb, zero is the empty sequence.                                  *)

LimbBits == 15

Base == 2 ^ LimbBits

RECURSIVE NNorm(_)
NNorm(a) ==
  IF a = <<>> THEN <<>>
  ELSE IF a[Len(a)] = 0 THEN NNorm(SubSeq(a, 1, Len(a) - 1))
  ELSE a

RECURSIVE NFromInt(_)
NFromInt(n) ==
  IF n = 0 THEN <<>> ELSE <<n % Base>> \o NFromInt(n \div Base)

RECURSIVE NAddC(_, _, _)
NAddC(a, b, carry) ==
  IF a = <<>> /\ b = <<>> THEN (IF carry = 0 THEN <<>> ELSE <<carry>>)
  ELSE LET x == IF a = <<>> THEN 0 ELSE a[1]
           y == IF b = <<>> THEN 0 ELSE b[1]
           t == x + y + carry
       IN  <<t % Base>> \o
           NAddC(IF a = <<>> THEN <<>> ELSE Tail(a),
                 IF b = <<>> THEN <<>> ELSE Tail(b), t \div Base)

NAdd(a, b) == NAddC(a, b, 0)

\* -1, 0, 1 as a < b, a = b, a > b
RECURSIVE NCmpEq(_, _, _)
NCmpEq(a, b, i) ==
  IF i = 0 THEN 0
  ELSE IF a[i] < b[i] THEN -1
  ELSE IF a[i] > b[i] THEN 1
  ELSE NCmpEq(a, b, i - 1)

NCmp(a, b) ==
  IF Len(a) < Len(b) THEN -1
  ELSE IF Len(a) > Len(b) THEN 1
  ELSE NCmpEq(a, b, Len(a))

\* a - b for a >= b
RECURSIVE NSubB(_, _, _)
NSubB(a, b, borrow) ==
  IF a = <<>> THEN <<>>
  ELSE LET y == IF b = <<>> THEN 0 ELSE b[1]
           t == a[1] - y - borrow
       IN  <<IF t < 0 THEN t + Base ELSE t>> \o
           NSubB(Tail(a), IF b = <<>> THEN <<>> ELSE Tail(b),
                 IF t < 0 THEN 1 ELSE 0)

NSub(a, b) == NNorm(NSubB(a, b, 0))

\* a * d for a single limb d
RECURSIVE NMulLimbC(_, _, _)
NMulLimbC(a, d, carry) ==
  IF a = <<>> THEN (IF carry = 0 THEN <<>> ELSE <<carry>>)
  ELSE LET t == a[1] * d + carry
       IN  <<t % Base>> \o NMulLimbC(Tail(a), d, t \div Base)

NMulLimb(a, d) == IF d = 0 THEN <<>> ELSE NMulLimbC(a, d, 0)

\* a * Base
NShiftLimb(a) == IF a = <<>> THEN <<>> ELSE <<0>> \o a

RECURSIVE NMul(_, _)
NMul(a, b) ==
  IF a = <<>> \/ b = <<>> THEN <<>>
  ELSE NAdd(NMulLimb(a, b[1]), NShiftLimb(NMul(a, Tail(b))))

ZeroLimbs(q) == [i \in 1..q |-> 0]

\* a * 2^k
NShl(a, k) ==
  IF a = <<>> THEN <<>>
  ELSE ZeroLimbs(k \div LimbBits) \o NMulLimb(a, 2 ^ (k % LimbBits))

\* floor(a / d) for a single limb d > 0, from the high limb down
RECURSIVE NDivLimbR(_, _, _, _)
NDivLimbR(a, d, i, rem) ==
  IF i = 0 THEN <<>>
  ELSE LET t == rem * Base + a[i]
       IN  NDivLimbR(a, d, i - 1, t % d) \o <<t \div d>>

NDivLimb(a, d) == NNorm(NDivLimbR(a, d, Len(a), 0))

\* floor(a / 2^k)
NShr(a, k) ==
  LET q == k \div LimbBits
  IN  IF q >= Len(a) THEN <<>>
      ELSE NDivLimb(SubSeq(a, q + 1, Len(a)), 2 ^ (k % LimbBits))

RECURSIVE IntBitLen(_)
IntBitLen(n) == IF n = 0 THEN 0 ELSE 1 + IntBitLen(n \div 2)

NBitLen(a) ==
  IF a = <<>> THEN 0 ELSE LimbBits * (Len(a) - 1) + IntBitLen(a[Len(a)])

NIsOdd(a) == a /= <<>> /\ a[1] % 2 = 1

----------------------------------------------------------------------------
(* JavaScript Number values.  A finite value is s * m * 2^e with s in      *)
(* {-1, 0, 1}; a binary64 value has m = 0 or 2^52 <= m < 2^53, which makes *)
(* the record canonical.  The two zeros are identified: the component      *)
(* never divides by a zero (both divisions by a computed value are guarded *)
(* by a > 0 test), which is the only place their sign could show.          *)
(* Exponents are not range-limited: with the inputs the component accepts  *)
(* (lines 185, 197, 255, 263) no result leaves the normal range.           *)

Precision == 53

NaN == [nan |-> TRUE, inf |-> FALSE, s |-> 0, m |-> <<>>, e |-> 0]

Zero == [nan |-> FALSE, inf |-> FALSE, s |-> 0, m |-> <<>>, e |-> 0]

Infinity(sgn) == [nan |-> FALSE, inf |-> TRUE, s |-> sgn, m |-> <<>>, e |-> 0]

\* the exact value s * m * 2^e
Dy(sgn, m, e) ==
  IF m = <<>> \/ sgn = 0 THEN Zero
  ELSE [nan |-> FALSE, inf |-> FALSE, s |-> sgn, m |-> m, e |-> e]

DNeg(x) == [x EXCEPT !.s = -x.s]

DAbs(x) == [x EXCEPT !.s = IF x.s = 0 THEN 0 ELSE 1]

\* s * |sa * a - sb * b| * 2^e ordered by c = NCmp(a, b), for sa /= sb
DSubMag(sa, a, sb, b, e, c) ==
  IF c = 0 THEN Zero
  ELSE IF c > 0 THEN Dy(sa, NSub(a, b), e)
  ELSE Dy(sb, NSub(b, a), e)

\* (sa * a + sb * b) * 2^e
DAddMag(sa, a, sb, b, e) ==
  IF sa = sb THEN Dy(sa, NAdd(a, b), e)
  ELSE DSubMag(sa, a, sb, b, e, NCmp(a, b))

\* exact sum of two finite values, aligned at the smaller exponent e
DAddAt(x, y, e) ==
  DAddMag(x.s, NShl(x.m, x.e - e), y.s, NShl(y.m, y.e - e), e)

DAdd(x, y) ==
  IF x.s = 0 THEN y
  ELSE IF y.s = 0 THEN x
  ELSE DAddAt(x, y, IF x.e < y.e THEN x.e ELSE y.e)

DSub(x, y) == DAdd(x, DNeg(y))

\* exact product of two finite values
DMul(x, y) == Dy(x.s * y.s, NMul(x.m, y.m), x.e + y.e)

\* the sign of x - y for finite x, y
DCmp(x, y) == DSub(x, y).s

\* Round-to-nearest, ties-to-even, of a finite exact value to binary64.
\* r is the significand after rounding at bit d: a carry out of the top bit
\* moves the exponent up by one.
RoundCarry(x, d, r) ==
  IF NBitLen(r) > Precision
  THEN Dy(x.s, NShr(r, 1), x.e + d + 1)
  ELSE Dy(x.s, r, x.e + d)

\* q is the significand truncated at bit d, c compares what was cut off
\* with half a unit in the last place
RoundPick(x, d, q, c) ==
  RoundCarry(x, d, IF c > 0 \/ (c = 0 /\ NIsOdd(q))
                   THEN NAdd(q, <<1>>) ELSE q)

RoundCut(x, d, q) ==
  RoundPick(x, d, q, NCmp(NSub(x.m, NShl(q, d)), NShl(<<1>>, d - 1)))

RoundLen(x, len) ==
  IF len <= Precision
  THEN Dy(x.s, NShl(x.m, Precision - len), x.e - (Precision - len))
  ELSE RoundCut(x, len - Precision, NShr(x.m, len - Precision))

RoundToDouble(x) == IF x.s = 0 THEN Zero ELSE RoundLen(x, NBitLen(x.m))

\* the Number with integer value n
FromInt(n) ==
  IF n = 0 THEN Zero
  ELSE RoundToDouble(Dy(IF n < 0 THEN -1 ELSE 1,
                        NFromInt(IF n < 0 THEN -n ELSE n), 0))

\* Long division of significands in base Base, one quotient limb a step.
\* The divisor b has its top limb >= Base / 2 and the remainder r < b * Base,
\* so the quotient of r's two top limbs by b's top limb is the digit or at
\* most two more; NDigitFix steps it down to the digit.
Limb(a, i) == IF i <= Len(a) THEN a[i] ELSE 0

RECURSIVE NDigitFix(_, _, _)
NDigitFix(r, b, d) ==
  IF NCmp(NMulLimb(b, d), r) > 0 THEN NDigitFix(r, b, d - 1) ELSE d

NDigitGuess(t) == IF t > Base - 1 THEN Base - 1 ELSE t

NDigit(r, b) ==
  NDigitFix(r, b, NDigitGuess((Limb(r, Len(b) + 1) * Base + Limb(r, Len(b)))
                              \div b[Len(b)]))

\* qr = <<q, r>> is the quotient and the remainder so far, k limbs to go
RECURSIVE NLongDiv(_, _, _)
NLongDivDigit(q, r, b, d, k) ==
  NLongDiv(<<NNorm(<<d>> \o q), NSub(r, NMulLimb(b, d))>>, b, k - 1)

NLongDivStep(q, r, b, k) == NLongDivDigit(q, r, b, NDigit(r, b), k)

NLongDiv(qr, b, k) ==
  IF k = 0 THEN qr ELSE NLongDivStep(qr[1], NShiftLimb(qr[2]), b, k)

\* quotient limbs computed beyond the leading bit: at least two bits more
\* than Precision, so the rounding position is always above the sticky bit
QuotientLimbs == (Precision + 2) \div LimbBits + 1

QuotientBits == LimbBits * QuotientLimbs

\* x + y, x - y, x * y, x / y of JavaScript
FAdd(x, y) ==
  IF x.nan \/ y.nan THEN NaN
  ELSE IF x.inf /\ y.inf THEN (IF x.s = y.s THEN x ELSE NaN)
  ELSE IF x.inf THEN x
  ELSE IF y.inf THEN y
  ELSE RoundToDouble(DAdd(x, y))

FNeg(x) == IF x.nan THEN NaN ELSE DNeg(x)

FSub(x, y) == FAdd(x, FNeg(y))

FMul(x, y) ==
  IF x.nan \/ y.nan THEN NaN
  ELSE IF x.inf \/ y.inf
       THEN (IF x.s * y.s = 0 THEN NaN ELSE Infinity(x.s * y.s))
  ELSE RoundToDouble(DMul(x, y))

\* qr is the quotient of the significands to QuotientBits places and its
\* remainder; a non-zero remainder is kept as one sticky bit below it
FDivRound(x, y, qr) ==
  RoundToDouble(Dy(x.s * y.s,
                   IF qr[2] = <<>> THEN NShl(qr[1], 1)
                   ELSE NAdd(NShl(qr[1], 1), <<1>>),
                   x.e - y.e - QuotientBits - 1))

\* a and b are the significands, scaled alike so that b's top limb is
\* >= Base / 2; a / b < 2 gives the leading quotient bit
FDivScaled(x, y, a, b) ==
  FDivRound(x, y,
    NLongDiv(IF NCmp(a, b) >= 0 THEN <<<<1>>, NSub(a, b)>> ELSE <<<<>>, a>>,
             b, QuotientLimbs))

FDivShift(x, y, sh) == FDivScaled(x, y, NShl(x.m, sh), NShl(y.m, sh))

FDiv(x, y) ==
  IF x.nan \/ y.nan THEN NaN
  ELSE IF x.inf THEN (IF y.inf THEN NaN
                      ELSE Infinity(IF y.s < 0 THEN -x.s ELSE x.s))
  ELSE IF y.inf THEN Zero
  ELSE IF y.s = 0 THEN (IF x.s = 0 THEN NaN ELSE Infinity(x.s))
  ELSE IF x.s = 0 THEN Zero
  ELSE FDivShift(x, y, LimbBits - IntBitLen(y.m[Len(y.m)]))

\* x > y, x <= y, x < y of JavaScript: false when either is NaN
ExtCmp(x, y) ==
  IF x.inf /\ y.inf THEN (IF x.s = y.s THEN 0 ELSE x.s)
  ELSE IF x.inf THEN x.s
  ELSE IF y.inf THEN -y.s
  ELSE DCmp(x, y)

FGt(x, y) == ~x.nan /\ ~y.nan /\ ExtCmp(x, y) > 0

FLe(x, y) == ~x.nan /\ ~y.nan /\ ExtCmp(x, y) <= 0

FLt(x, y) == ~x.nan /\ ~y.nan /\ ExtCmp(x, y) < 0

\* Number.isFinite
IsFinite(x) == ~x.nan /\ ~x.inf

\* Math.max, Math.min of two Numbers
MathMax(x, y) == IF x.nan \/ y.nan THEN NaN ELSE IF FGt(y, x) THEN y ELSE x

MathMin(x, y) == IF x.nan \/ y.nan THEN NaN ELSE IF FLt(y, x) THEN y ELSE x

----------------------------------------------------------------------------
(* The text of an input field (e.target.value): empty, or a decimal        *)
(* numeral n / 10^scale.  A number field holds nothing else: the browser   *)
(* hands the handler "" for text that is no number.                        *)

EmptyText == [empty |-> TRUE, n |-> 0, scale |-> 0]

Numeral(n, scale) == [empty |-> FALSE, n |-> n, scale |-> scale]

\* Number(text): the binary64 value nearest to the numeral; Number("") is 0
Number(t) ==
  IF t.empty THEN Zero
  ELSE IF t.scale = 0 THEN FromInt(t.n)
  ELSE FDiv(FromInt(t.n), FromInt(10 ^ t.scale))

\* Number(e.target.value || 0): the empty text is falsy and gives 0
NumberOrZero(t) == IF t.empty THEN FromInt(0) ELSE Number(t)

\* const clamp = (value, min, max) => Math.min(max, Math.max(min, value))
clamp(value, min, max) == MathMin(max, MathMax(min, value))

\* the literals of the component
One == FromInt(1)

Hundred == FromInt(100)

OneHundredth == Number(Numeral(1, 2))

\* mutant: the variable costs are added to the margin
structureMargin_CogsAdded(c, f) == FSub(FAdd(One, c), f)

\* useMemo callback of structure, lines 36-47
structureMargin(c, f) == FSub(FSub(One, c), f)

structureOf(c, f, margin) ==
  [c |-> c, f |-> f, margin |-> margin, isValid |-> FGt(margin, Zero)]

structureFn(cogs, fixed) ==
  structureOf(FDiv(cogs, Hundred), FDiv(fixed, Hundred),
              structureMargin(FDiv(cogs, Hundred), FDiv(fixed, Hundred)))

\* mutant: the guard lets a zero margin through
onePercentImpactsFn_ZeroMarginPasses(st) ==
  IF FLt(st.margin, Zero)
  THEN [price |-> NaN, volume |-> NaN, fixed |-> NaN, cogs |-> NaN]
  ELSE [price  |-> FDiv(OneHundredth, st.margin),
        volume |-> FDiv(FMul(OneHundredth, FSub(One, st.c)), st.margin),
        fixed  |-> FDiv(FMul(OneHundredth, st.f), st.margin),
        cogs   |-> FDiv(FMul(OneHundredth, st.c), st.margin)]

\* mutant: the volume effect takes c for 1 - c
onePercentImpactsFn_VolumeFromCogs(st) ==
  IF FLe(st.margin, Zero)
  THEN [price |-> NaN, volume |-> NaN, fixed |-> NaN, cogs |-> NaN]
  ELSE [price  |-> FDiv(OneHundredth, st.margin),
        volume |-> FDiv(FMul(OneHundredth, st.c), st.margin),
        fixed  |-> FDiv(FMul(OneHundredth, st.f), st.margin),
        cogs   |-> FDiv(FMul(OneHundredth, st.c), st.margin)]

\* mutant: the variable-cost effect takes f for c
onePercentImpactsFn_CogsFromFixed(st) ==
  IF FLe(st.margin, Zero)
  THEN [price |-> NaN, volume |-> NaN, fixed |-> NaN, cogs |-> NaN]
  ELSE [price  |-> FDiv(OneHundredth, st.margin),
        volume |-> FDiv(FMul(OneHundredth, FSub(One, st.c)), st.margin),
        fixed  |-> FDiv(FMul(OneHundredth, st.f), st.margin),
        cogs   |-> FDiv(FMul(OneHundredth, st.f), st.margin)]

\* useMemo callback of onePercentImpacts, lines 49-75
onePercentImpactsFn(st) ==
  IF FLe(st.margin, Zero)
  THEN [price |-> NaN, volume |-> NaN, fixed |-> NaN, cogs |-> NaN]
  ELSE [price  |-> FDiv(OneHundredth, st.margin),
        volume |-> FDiv(FMul(OneHundredth, FSub(One, st.c)), st.margin),
        fixed  |-> FDiv(FMul(OneHundredth, st.f), st.margin),
        cogs   |-> FDiv(FMul(OneHundredth, st.c), st.margin)]

\* mutant: the final - 1 is left out
tradeoffVolume_RatioOnly(c, denominator) ==
  IF FLe(denominator, Zero) THEN [volumeRequired |-> NaN]
  ELSE [volumeRequired |-> FDiv(FSub(One, c), denominator)]

\* useMemo callback of tradeoff, lines 79-95
tradeoffVolume(c, denominator) ==
  IF FLe(denominator, Zero) THEN [volumeRequired |-> NaN]
  ELSE [volumeRequired |-> FSub(FDiv(FSub(One, c), denominator), One)]

\* mutant: the price change enters the denominator with the wrong sign
tradeoffFn_PriceSubtracted(st, priceChange) ==
  IF ~st.isValid THEN [volumeRequired |-> NaN]
  ELSE tradeoffVolume(st.c,
                      FSub(FSub(One, FDiv(priceChange, Hundred)), st.c))

tradeoffFn(st, priceChange) ==
  IF ~st.isValid THEN [volumeRequired |-> NaN]
  ELSE tradeoffVolume(st.c,
                      FSub(FAdd(One, FDiv(priceChange, Hundred)), st.c))

----------------------------------------------------------------------------
(* The inputs of the model: what is typed into the fields and where the    *)
(* slider is put.  Each bound takes the first samples of its list.         *)

MaxCostSample == 9

MaxPriceSample == 5

MaxSliderSample == 2

MaxCompanySample == 1

MaxYearSample == 1

CostSamples ==
  << EmptyText, Numeral(30, 0), Numeral(45, 0), Numeral(50, 0),
     Numeral(58, 0), Numeral(70, 0), Numeral(150, 0), Numeral(-5, 0),
     Numeral(125, 1), Numeral(82, 0), Numeral(995, 1) >>

PriceSamples ==
  << EmptyText, Numeral(-5, 0), Numeral(5, 0), Numeral(-42, 0),
     Numeral(-60, 0), Numeral(75, 0), Numeral(-25, 1) >>

\* slider positions, in steps from 0
SliderSamples == << -36, 5, 40, -40 >>

CompanySamples == << "Globex", "", "Initech" >>

YearSamples == << EmptyText, Numeral(2026, 0), Numeral(1999, 0) >>

FirstOf(samples, max) ==
  {samples[i] : i \in 1..(IF max < Len(samples) THEN max ELSE Len(samples))}

CostTexts == FirstOf(CostSamples, MaxCostSample)

PriceTexts == FirstOf(PriceSamples, MaxPriceSample)

\* <input type="range" min={-20} max={20} step={0.5}>: the browser keeps
\* the value on the steps between min and max
SliderMin == -20

SliderMax == 20

SliderStepTenths == 5

SliderTexts ==
  {Numeral(SliderStepTenths * k, 1) :
     k \in {j \in FirstOf(SliderSamples, MaxSliderSample) :
              /\ SliderMin * 10 <= SliderStepTenths * j
              /\ SliderStepTenths * j <= SliderMax * 10}}

CompanyTexts == FirstOf(CompanySamples, MaxCompanySample)

YearTexts == FirstOf(YearSamples, MaxYearSample)

\* useState initial values, lines 26-32
InitialCompany == "Acme Inc"

InitialYear == 2025

InitialCogsPct == 45

InitialFixedPct == 30

InitialPriceChangeTradeoffPct == -5

\* the limits the handlers clamp to, lines 185, 197 and 263
CostMin == 0

CostMax == 100

PriceMin == -50

PriceMax == 50

\* mutant: the upper limit is not applied
costOnChange_NoUpperLimit(t) == MathMax(FromInt(CostMin), NumberOrZero(t))

\* onChange of the Variable Costs and Fixed Costs fields, lines 185 and 197
costOnChange(t) == clamp(NumberOrZero(t), FromInt(CostMin), FromInt(CostMax))

\* onChange of the price-change number field, line 263
priceOnChange(t) ==
  clamp(NumberOrZero(t), FromInt(PriceMin), FromInt(PriceMax))

\* onChange of the price-change slider, line 255
sliderOnChange(t) == Number(t)

\* onChange of the Year field, line 158: "" is kept as "", else the Number
yearOnChange(t) ==
  IF t.empty THEN [empty |-> TRUE, value |-> Zero]
  ELSE [empty |-> FALSE, value |-> Number(t)]

----------------------------------------------------------------------------
(* TLC evaluates a constant once.  The handlers' and the callbacks' values *)
(* over the inputs of the model are kept in these tables, so that a step   *)
(* looks its value up instead of redoing the arithmetic.                   *)

CostStored == [t \in CostTexts |-> costOnChange(t)]

PriceStored == [t \in PriceTexts |-> priceOnChange(t)]

SliderStored == [t \in SliderTexts |-> sliderOnChange(t)]

\* every Number the model passes as a cost percentage: the stored ones and,
\* for the callbacks applied on their own, the unclamped ones
PctValues ==
  {CostStored[t] : t \in CostTexts} \cup {NumberOrZero(t) : t \in CostTexts}
    \cup {FromInt(InitialCogsPct), FromInt(InitialFixedPct)}

PriceValues ==
  {PriceStored[t] : t \in PriceTexts} \cup {NumberOrZero(t) : t \in PriceTexts}
    \cup {SliderStored[t] : t \in SliderTexts}
    \cup {FromInt(InitialPriceChangeTradeoffPct)}

StructureMemo == [cg \in PctValues, fx \in PctValues |-> structureFn(cg, fx)]

Structures == {StructureMemo[cg, fx] : cg \in PctValues, fx \in PctValues}

ImpactsMemo == [st \in Structures |-> onePercentImpactsFn(st)]

TradeoffMemo == [st \in Structures, p \in PriceValues |-> tradeoffFn(st, p)]

----------------------------------------------------------------------------
(* The component App: its state and its three memoized results.            *)

VARIABLES company, year, cogsPct, fixedPct, priceChangeTradeoffPct,
          structure, onePercentImpacts, tradeoff

vars == <<company, year, cogsPct, fixedPct, priceChangeTradeoffPct,
          structure, onePercentImpacts, tradeoff>>

\* the first render: every callback runs
Init ==
  /\ company = InitialCompany
  /\ year = [empty |-> FALSE, value |-> FromInt(InitialYear)]
  /\ cogsPct = FromInt(InitialCogsPct)
  /\ fixedPct = FromInt(InitialFixedPct)
  /\ priceChangeTradeoffPct = FromInt(InitialPriceChangeTradeoffPct)
  /\ structure = StructureMemo[cogsPct, fixedPct]
  /\ onePercentImpacts = ImpactsMemo[structure]
  /\ tradeoff = TradeoffMemo[structure, priceChangeTradeoffPct]

\* useMemo reruns a callback when a dependency is not Object.is-equal to its
\* value at the previous render.  structure is a fresh object exactly when
\* its callback has rerun.
structureDepsChanged == cogsPct' /= cogsPct \/ fixedPct' /= fixedPct

onePercentImpactsDepsChanged == structureDepsChanged

\* mutant: priceChangeTradeoffPct is missing from the dependency list
tradeoffDepsChanged_PriceMissing == structureDepsChanged

tradeoffDepsChanged ==
  structureDepsChanged \/ priceChangeTradeoffPct' /= priceChangeTradeoffPct

\* the render that follows a state change
Render ==
  /\ structure' = IF structureDepsChanged
                  THEN StructureMemo[cogsPct', fixedPct'] ELSE structure
  /\ onePercentImpacts' = IF onePercentImpactsDepsChanged
                          THEN ImpactsMemo[structure'] ELSE onePercentImpacts
  /\ tradeoff' = IF tradeoffDepsChanged
                 THEN TradeoffMemo[structure', priceChangeTradeoffPct']
                 ELSE tradeoff

SetCompany(t) ==
  /\ company' = t
  /\ UNCHANGED <<year, cogsPct, fixedPct, priceChangeTradeoffPct>>
  /\ Render

SetYear(t) ==
  /\ year' = yearOnChange(t)
  /\ UNCHANGED <<company, cogsPct, fixedPct, priceChangeTradeoffPct>>
  /\ Render

SetCogsPct(t) ==
  /\ cogsPct' = CostStored[t]
  /\ UNCHANGED <<company, year, fixedPct, priceChangeTradeoffPct>>
  /\ Render

SetFixedPct(t) ==
  /\ fixedPct' = CostStored[t]
  /\ UNCHANGED <<company, year, cogsPct, priceChangeTradeoffPct>>
  /\ Render

SlidePriceChange(t) ==
  /\ priceChangeTradeoffPct' = SliderStored[t]
  /\ UNCHANGED <<company, year, cogsPct, fixedPct>>
  /\ Render

SetPriceChange(t) ==
  /\ priceChangeTradeoffPct' = PriceStored[t]
  /\ UNCHANGED <<company, year, cogsPct, fixedPct>>
  /\ Render

Next ==
  \/ \E t \in CompanyTexts : SetCompany(t)
  \/ \E t \in YearTexts : SetYear(t)
  \/ \E t \in CostTexts : SetCogsPct(t)
  \/ \E t \in CostTexts : SetFixedPct(t)
  \/ \E t \in SliderTexts : SlidePriceChange(t)
  \/ \E t \in PriceTexts : SetPriceChange(t)

Spec == Init /\ [][Next]_vars

----------------------------------------------------------------------------
(* The three callbacks on their own, applied to any Numbers: the inputs    *)
(* are not clamped and every result is computed from scratch.              *)

Compute ==
  /\ structure' = StructureMemo[cogsPct', fixedPct']
  /\ onePercentImpacts' = ImpactsMemo[structure']
  /\ tradeoff' = TradeoffMemo[structure', priceChangeTradeoffPct']

EngineInit ==
  /\ company = InitialCompany
  /\ year = [empty |-> FALSE, value |-> FromInt(InitialYear)]
  /\ cogsPct \in PctValues
  /\ fixedPct \in PctValues
  /\ priceChangeTradeoffPct \in PriceValues
  /\ structure = StructureMemo[cogsPct, fixedPct]
  /\ onePercentImpacts = ImpactsMemo[structure]
  /\ tradeoff = TradeoffMemo[structure, priceChangeTradeoffPct]

ApplyVariableCost(v) ==
  /\ cogsPct' = v
  /\ UNCHANGED <<company, year, fixedPct, priceChangeTradeoffPct>>
  /\ Compute

ApplyFixedCost(v) ==
  /\ fixedPct' = v
  /\ UNCHANGED <<company, year, cogsPct, priceChangeTradeoffPct>>
  /\ Compute

ApplyPriceChange(v) ==
  /\ priceChangeTradeoffPct' = v
  /\ UNCHANGED <<company, year, cogsPct, fixedPct>>
  /\ Compute

EngineNext ==
  \/ \E v \in PctValues : ApplyVariableCost(v)
  \/ \E v \in PctValues : ApplyFixedCost(v)
  \/ \E v \in PriceValues : ApplyPriceChange(v)

EngineSpec == EngineInit /\ [][EngineNext]_vars

----------------------------------------------------------------------------
(* Properties.  The percentages held in the state are Numbers, and so are  *)
(* exact dyadic values: sums and comparisons of them below are exact       *)
(* (DAdd, DSub, DMul, DCmp), not rounded.  A computed result is compared   *)
(* with the real-number value of a formula up to the rounding of the       *)
(* binary64 operations: Close(x, num, den) says that x is finite and lies  *)
(* within a relative error of 2^-40 of num / den.                          *)

Tolerance == Dy(1, <<1>>, -40)

Close(x, num, den) ==
  /\ IsFinite(x)
  /\ DCmp(DAbs(DSub(DMul(x, den), num)), DMul(Tolerance, DAbs(num))) <= 0

Thousand == FromInt(1000)

\* variableCostPct + fixedCostPct, exactly
CostSum == DAdd(cogsPct, fixedPct)

\* 100 - variableCostPct - fixedCostPct, exactly: 100 times the margin
Margin100 == DSub(Hundred, CostSum)

\* 100 + priceChangePct - variableCostPct, exactly: 100 times 1 + p - c
Denominator100 == DSub(DAdd(Hundred, priceChangeTradeoffPct), cogsPct)

\* 100 - variableCostPct, exactly: 100 times 1 - c
Contribution100 == DSub(Hundred, cogsPct)

InRange(x, lo, hi) == DCmp(x, FromInt(lo)) >= 0 /\ DCmp(x, FromInt(hi)) <= 0

AllNaN(r) == r.price.nan /\ r.volume.nan /\ r.fixed.nan /\ r.cogs.nan

NoneNaN(r) == ~r.price.nan /\ ~r.volume.nan /\ ~r.fixed.nan /\ ~r.cogs.nan

\* C1: for variableCostPct >= 0 and fixedCostPct >= 0 the structure has
\* isValid = true exactly when variableCostPct + fixedCostPct < 100, and then
\* operatingMarginFraction = 1 - (variableCostPct + fixedCostPct)/100 > 0;
\* at variableCostPct + fixedCostPct >= 100 isValid = false.
C1_ValidIffCostsBelowSales ==
  (DCmp(cogsPct, Zero) >= 0 /\ DCmp(fixedPct, Zero) >= 0) =>
    /\ structure.isValid <=> DCmp(CostSum, Hundred) < 0
    /\ structure.isValid =>
         /\ FGt(structure.margin, Zero)
         /\ Close(structure.margin, Margin100, Hundred)

\* C2: for a structure with isValid = false all four lever sensitivities are
\* NaN, and for a structure with isValid = true none of them is.
C2_InvalidGivesNaN ==
  /\ ~structure.isValid => AllNaN(onePercentImpacts)
  /\ structure.isValid => NoneNaN(onePercentImpacts)

C2_Witness ==
  /\ ~structure.isValid
  /\ structure.margin = Zero
  /\ AllNaN(onePercentImpacts)

\* C3: for a valid structure with fractions c, f and margin m the effects are
\* price = 0.01/m, volume = 0.01*(1-c)/m, fixed = 0.01*f/m, cogs = 0.01*c/m;
\* for variableCostPct = 45, fixedCostPct = 30 they are 0.04, 0.022, 0.012
\* and 0.018.
C3_LeverFormulas ==
  /\ structure.isValid =>
       /\ Close(onePercentImpacts.price, One, DMul(Hundred, structure.margin))
       /\ Close(onePercentImpacts.volume, DSub(One, structure.c),
                DMul(Hundred, structure.margin))
       /\ Close(onePercentImpacts.fixed, structure.f,
                DMul(Hundred, structure.margin))
       /\ Close(onePercentImpacts.cogs, structure.c,
                DMul(Hundred, structure.margin))
  /\ (cogsPct = FromInt(45) /\ fixedPct = FromInt(30)) =>
       /\ structure.isValid
       /\ Close(onePercentImpacts.price, FromInt(4), Hundred)
       /\ Close(onePercentImpacts.volume, FromInt(22), Thousand)
       /\ Close(onePercentImpacts.fixed, FromInt(12), Thousand)
       /\ Close(onePercentImpacts.cogs, FromInt(18), Thousand)

C3_Witness ==
  /\ cogsPct = FromInt(45)
  /\ fixedPct = FromInt(30)
  /\ structure.isValid
  /\ IsFinite(onePercentImpacts.volume)

\* C4: the required volume change is NaN whenever isValid = false or
\* 1 + priceChangePct/100 - variableCostPct/100 <= 0, and in every other case
\* it is the finite value (1 - c)/(1 + p - c) - 1.
C4_NaNIffNoBreakEven ==
  IF ~structure.isValid \/ DCmp(Denominator100, Zero) <= 0
  THEN tradeoff.volumeRequired.nan
  ELSE Close(DAdd(One, tradeoff.volumeRequired),
             Contribution100, Denominator100)

\* C5: for a valid structure and a price change with 1 + p - c > 0 the
\* required volume change v satisfies (1 + v) * (1 + p - c) = 1 - c; for
\* variableCostPct = 45, fixedCostPct = 30, priceChangePct = -5 it is 0.1.
C5_ProfitPreserved ==
  /\ (structure.isValid /\ DCmp(Denominator100, Zero) > 0) =>
       /\ IsFinite(tradeoff.volumeRequired)
       /\ Close(DAdd(One, tradeoff.volumeRequired),
                Contribution100, Denominator100)
  /\ (/\ cogsPct = FromInt(45)
      /\ fixedPct = FromInt(30)
      /\ priceChangeTradeoffPct = FromInt(-5)) =>
       Close(tradeoff.volumeRequired, One, FromInt(10))

C5_Witness ==
  /\ cogsPct = FromInt(45)
  /\ fixedPct = FromInt(30)
  /\ priceChangeTradeoffPct = FromInt(-5)
  /\ IsFinite(tradeoff.volumeRequired)

\* C6 (as claimed): for fixedCostPct in [0,100) and 0 <= a < b with
\* b + fixedCostPct < 100, the margin at b is strictly smaller than at a and
\* each of the four effects at b is larger in magnitude than at a.  The state
\* holds the results at b = variableCostPct; those at a are the callbacks'.
SmallerMarginThanAt(a) ==
  FLt(structure.margin, StructureMemo[a, fixedPct].margin)

LargerThanAt(a, lever) ==
  DCmp(DAbs(onePercentImpacts[lever]),
       DAbs(ImpactsMemo[StructureMemo[a, fixedPct]][lever])) > 0

BelowVariableCost(a) ==
  /\ DCmp(a, Zero) >= 0
  /\ DCmp(a, cogsPct) < 0
  /\ DCmp(CostSum, Hundred) < 0

C6_MonotoneAsClaimed ==
  \A a \in PctValues :
    (DCmp(fixedPct, Zero) >= 0 /\ BelowVariableCost(a)) =>
      /\ SmallerMarginThanAt(a)
      /\ \A lever \in {"price", "volume", "fixed", "cogs"} :
           LargerThanAt(a, lever)

\* C6 (amended): the same for fixedCostPct in (0,100); with fixedCostPct = 0
\* the margin still falls and the price and variable-cost effects still
\* grow, while the fixed-cost effect is 0 and the volume effect 0.01 at both.
C6_Monotone ==
  \A a \in PctValues :
    /\ (DCmp(fixedPct, Zero) > 0 /\ BelowVariableCost(a)) =>
         /\ SmallerMarginThanAt(a)
         /\ \A lever \in {"price", "volume", "fixed", "cogs"} :
              LargerThanAt(a, lever)
    /\ (fixedPct = Zero /\ BelowVariableCost(a)) =>
         /\ SmallerMarginThanAt(a)
         /\ LargerThanAt(a, "price")
         /\ LargerThanAt(a, "cogs")
         /\ onePercentImpacts.fixed = Zero
         /\ ImpactsMemo[StructureMemo[a, fixedPct]].fixed = Zero
         /\ Close(onePercentImpacts.volume, One, Hundred)
         /\ Close(ImpactsMemo[StructureMemo[a, fixedPct]].volume, One, Hundred)

C6_Witness ==
  /\ cogsPct = FromInt(58)
  /\ fixedPct = FromInt(30)
  /\ BelowVariableCost(FromInt(45))
  /\ LargerThanAt(FromInt(45), "volume")

\* C7: after any sequence of edits and the render that follows each, the
\* memoized structure, sensitivities and trade-off are the values the
\* callbacks give for the current inputs; an edit that leaves variableCostPct
\* and fixedCostPct alone leaves the structure and the sensitivities as they
\* were, and one that leaves priceChangePct alone as well leaves the trade-off.
MemoCurrent ==
  /\ structure = StructureMemo[cogsPct, fixedPct]
  /\ onePercentImpacts = ImpactsMemo[StructureMemo[cogsPct, fixedPct]]
  /\ tradeoff = TradeoffMemo[StructureMemo[cogsPct, fixedPct],
                             priceChangeTradeoffPct]

MemoKept ==
  /\ (cogsPct' = cogsPct /\ fixedPct' = fixedPct) =>
       /\ structure' = structure
       /\ onePercentImpacts' = onePercentImpacts
  /\ (/\ cogsPct' = cogsPct
      /\ fixedPct' = fixedPct
      /\ priceChangeTradeoffPct' = priceChangeTradeoffPct) =>
       tradeoff' = tradeoff

C7_NoStaleResult == []MemoCurrent /\ [][MemoKept]_vars

C7_Witness ==
  /\ company /= InitialCompany
  /\ year.empty
  /\ cogsPct /= FromInt(InitialCogsPct)
  /\ fixedPct /= FromInt(InitialFixedPct)
  /\ priceChangeTradeoffPct /= FromInt(InitialPriceChangeTradeoffPct)
  /\ MemoCurrent

\* C8: the stored variableCostPct and fixedCostPct are always within [0,100],
\* whatever numeral or empty text was typed.
C8_StoredCostsInRange ==
  /\ IsFinite(cogsPct) /\ InRange(cogsPct, CostMin, CostMax)
  /\ IsFinite(fixedPct) /\ InRange(fixedPct, CostMin, CostMax)

\* typing 150 stores 100, the empty text stores 0
C8_Witness == cogsPct = FromInt(CostMax) /\ fixedPct = Zero

\* C9: for a valid structure priceEffect = volumeEffect + variableCostEffect;
\* with variableCostPct and fixedCostPct in [0,100], priceEffect is at least
\* each of the other three and all four are >= 0.
AtLeast(x, y) == DCmp(x, y) >= 0

C9_PriceIsStrongestLever ==
  structure.isValid =>
    /\ Close(onePercentImpacts.price,
             DAdd(onePercentImpacts.volume, onePercentImpacts.cogs), One)
    /\ (InRange(cogsPct, 0, 100) /\ InRange(fixedPct, 0, 100)) =>
         /\ AtLeast(onePercentImpacts.price, onePercentImpacts.volume)
         /\ AtLeast(onePercentImpacts.price, onePercentImpacts.fixed)
         /\ AtLeast(onePercentImpacts.price, onePercentImpacts.cogs)
         /\ AtLeast(onePercentImpacts.volume, Zero)
         /\ AtLeast(onePercentImpacts.fixed, Zero)
         /\ AtLeast(onePercentImpacts.cogs, Zero)
         /\ AtLeast(onePercentImpacts.price, Zero)

C9_Witness ==
  /\ structure.isValid
  /\ InRange(cogsPct, 1, 99)
  /\ InRange(fixedPct, 1, 99)
  /\ FGt(onePercentImpacts.price, onePercentImpacts.volume)
  /\ FGt(onePercentImpacts.cogs, onePercentImpacts.fixed)

\* C10: when the trade-off is defined (valid structure, variableCostPct in
\* [0,100), 1 + p - c > 0) the required volume change v has the sign opposite
\* to the price change p (v = 0 for p = 0), and v > -1.
C10_VolumeOpposesPrice ==
  (/\ structure.isValid
   /\ DCmp(cogsPct, Zero) >= 0
   /\ DCmp(cogsPct, Hundred) < 0
   /\ DCmp(Denominator100, Zero) > 0) =>
    /\ IsFinite(tradeoff.volumeRequired)
    /\ priceChangeTradeoffPct.s = -tradeoff.volumeRequired.s
    /\ FGt(tradeoff.volumeRequired, FromInt(-1))

C10_Witness ==
  /\ structure.isValid
  /\ InRange(cogsPct, 1, 99)
  /\ priceChangeTradeoffPct.s > 0
  /\ tradeoff.volumeRequired.s < 0
  /\ FGt(tradeoff.volumeRequired, FromInt(-1))
====
